---- MODULE Spec2Model ----
(***************************************************************************)
(* Model of agents/code-agent.py: index_codebase loads a directory, splits *)
(* the documents with RecursiveCharacterTextSplitter, checks the           *)
(* OPENAI_API_KEY credential, builds the embeddings and Chroma clients and *)
(* adds the chunks to the "codebase" collection.                           *)
(*                                                                         *)
(* Strings are sequences of Unicode code points, so that splitting,        *)
(* stripping, joining and int() are computed rather than assumed.          *)
(***************************************************************************)
EXTENDS Integers, Sequences, FiniteSets, TLC

VARIABLES
    fs,            \* the directory tree: [exists, files], files = <<[source, page_content]>>
    collection,    \* server-side records of the "codebase" collection: set of [id, source, text]
    next_id,       \* number of record ids generated so far (ids are fresh per add_documents)
    runs,          \* number of process runs started
    environ,       \* os.environ of the current run (function: variable name -> value)
    pc,            \* position of the current run in __main__ / index_codebase
    chroma_port,   \* int(os.getenv('CHROMADB_PORT', 8000)) of the current run
    documents,     \* loader.load() result
    texts,         \* text_splitter.split_documents(documents) result
    embeddings,    \* TRUE once OpenAIEmbeddings has been constructed in this run
    vectorstore,   \* TRUE once the Chroma client has been constructed in this run
    exception,     \* the uncaught exception of the run, or NoException
    exit_status,   \* <<status>> once the process has exited, Running before
    fs_reads,      \* number of loader.load() calls executed in this run
    network_calls, \* number of calls that contacted the store or the embedding service in this run
    upserts,       \* chunks handed to collection.upsert in this run, in order
    run_start,     \* contents of the collection when the current run started
    sp_text,       \* splitter alone: the text under split
    sp_size,       \* splitter alone: chunk_size
    sp_overlap,    \* splitter alone: chunk_overlap
    sp_chunks,     \* splitter alone: split_text result
    sp_pc          \* splitter alone: "new" | "ready" | "rejected" | "split"

vars == <<fs, collection, next_id, runs, environ, pc, chroma_port, documents, texts,
          embeddings, vectorstore, exception, exit_status, fs_reads, network_calls,
          upserts, run_start, sp_text, sp_size, sp_overlap, sp_chunks, sp_pc>>

pipeVars == <<fs, collection, next_id, runs, environ, pc, chroma_port, documents, texts,
              embeddings, vectorstore, exception, exit_status, fs_reads, network_calls,
              upserts, run_start>>

splitVars == <<sp_text, sp_size, sp_overlap, sp_chunks, sp_pc>>

----------------------------------------------------------------------------
(* Bounds of the model *)

MaxDocs == 2        \* files in the directory
MaxLen == 1         \* characters per file in the pipeline runs
MaxRuns == 2        \* process runs against the same collection
MaxTextLen == 5     \* characters per text when the splitter runs alone
MaxSize == 3        \* largest chunk_size / chunk_overlap when the splitter runs alone

(* Program constants *)

chunk_size == 1000
chunk_overlap == 100
default_port == 8000
\* sys.get_int_max_str_digits() when the environment does not set it
default_max_str_digits == 4300
\* the smallest limit other than 0 (no limit) that the interpreter accepts
max_str_digits_threshold == 640

----------------------------------------------------------------------------
(* Strings *)

Ceil(a, b) == IF a >= 0 THEN (a + b - 1) \div b ELSE 0 - ((0 - a) \div b)

Min(a, b) == IF a <= b THEN a ELSE b

\* the characters str.strip() removes (str.isspace): tab, LF, VT, FF, CR,
\* FS, GS, RS, US, space, NEL, NBSP and the Unicode space separators
Whitespace ==
    {9, 10, 11, 12, 13, 28, 29, 30, 31, 32, 133, 160, 5760}
    \cup (8192..8202) \cup {8232, 8233, 8239, 8287, 12288}

Str(str, n) == UNION {[1..k -> str] : k \in 0..n}

RECURSIVE Join(_, _)
\* separator.join(docs)
Join(docs, separator) ==
    IF docs = <<>> THEN <<>>
    ELSE IF Len(docs) = 1 THEN docs[1]
    ELSE docs[1] \o separator \o Join(Tail(docs), separator)

RECURSIVE lstrip(_, _)
lstrip(text, chars) ==
    IF text # <<>> /\ text[1] \in chars THEN lstrip(Tail(text), chars) ELSE text

RECURSIVE rstrip(_, _)
rstrip(text, chars) ==
    IF text # <<>> /\ text[Len(text)] \in chars
    THEN rstrip(SubSeq(text, 1, Len(text) - 1), chars) ELSE text

\* str.strip()
strip(text) == rstrip(lstrip(text, Whitespace), Whitespace)

\* text[i:].startswith(sep), i 1-based
StartsAt(text, sep, i) ==
    /\ i + Len(sep) - 1 <= Len(text)
    /\ SubSeq(text, i, i + Len(sep) - 1) = sep

\* re.search(re.escape(sep), text) for a non-empty literal sep
re_search(sep, text) == \E i \in 1..Len(text) : StartsAt(text, sep, i)

RECURSIVE re_split_from(_, _, _, _)
\* the scan of re.split(f"({sep})", text): i is the scan position, from the
\* start of the piece being collected; leftmost non-overlapping matches
re_split_from(sep, text, from, i) ==
    IF i > Len(text) THEN << SubSeq(text, from, Len(text)) >>
    ELSE IF StartsAt(text, sep, i)
         THEN << SubSeq(text, from, i - 1), sep >>
                 \o re_split_from(sep, text, i + Len(sep), i + Len(sep))
         ELSE re_split_from(sep, text, from, i + 1)

\* re.split(f"({sep})", text) with the separator captured: piece, sep, piece, ...
re_split(sep, text) == re_split_from(sep, text, 1, 1)

SelectNonEmpty(splits) == SelectSeq(splits, LAMBDA s : s # <<>>)

\* _split_text_with_regex(text, separator, keep_separator=True)
split_text_with_regex(text, separator) ==
    IF separator # <<>>
    THEN LET raw == re_split(separator, text)
             pairs == [k \in 1..((Len(raw) - 1) \div 2) |-> raw[2 * k] \o raw[2 * k + 1]]
             last == IF Len(raw) % 2 = 0 THEN << raw[Len(raw)] >> ELSE <<>>
         IN SelectNonEmpty(<< raw[1] >> \o pairs \o last)
    ELSE SelectNonEmpty([k \in 1..Len(text) |-> << text[k] >>])

\* TextSplitter._join_docs: the joined text, stripped; <<>> stands for None
\* (an empty text is never emitted)
join_docs(docs, separator) == strip(Join(docs, separator))

RECURSIVE pop_while(_, _, _, _, _, _)
\* the "keep on popping" loop of TextSplitter._merge_splits
pop_while(current_doc, total, len, separator_len, size, overlap) ==
    IF \/ total > overlap
       \/ /\ total + len + (IF Len(current_doc) > 0 THEN separator_len ELSE 0) > size
          /\ total > 0
    THEN pop_while(Tail(current_doc),
                   total - (Len(current_doc[1])
                            + (IF Len(current_doc) > 1 THEN separator_len ELSE 0)),
                   len, separator_len, size, overlap)
    ELSE [current_doc |-> current_doc, total |-> total]

RECURSIVE merge_loop(_, _, _, _, _, _, _, _)
\* the for loop of TextSplitter._merge_splits, from splits[i] on
merge_loop(splits, i, docs, current_doc, total, separator, size, overlap) ==
    IF i > Len(splits)
    THEN LET doc == join_docs(current_doc, separator)
         IN IF doc # <<>> THEN Append(docs, doc) ELSE docs
    ELSE LET d == splits[i]
             len == Len(d)
             separator_len == Len(separator)
             over == total + len + (IF Len(current_doc) > 0 THEN separator_len ELSE 0) > size
             flush == over /\ Len(current_doc) > 0
             doc == join_docs(current_doc, separator)
             docs1 == IF flush /\ doc # <<>> THEN Append(docs, doc) ELSE docs
             kept == IF flush
                     THEN pop_while(current_doc, total, len, separator_len, size, overlap)
                     ELSE [current_doc |-> current_doc, total |-> total]
             current1 == Append(kept.current_doc, d)
             total1 == kept.total + len + (IF Len(current1) > 1 THEN separator_len ELSE 0)
         IN merge_loop(splits, i + 1, docs1, current1, total1, separator, size, overlap)

\* TextSplitter._merge_splits(splits, separator)
merge_splits(splits, separator, size, overlap) ==
    merge_loop(splits, 1, <<>>, <<>>, 0, separator, size, overlap)

\* RecursiveCharacterTextSplitter._separators (the default list)
\* ["\n\n", "\n", " ", ""]
separators == << <<10, 10>>, <<10>>, <<32>>, <<>> >>

RECURSIVE pick_separator(_, _, _)
\* the separator-selection loop of _split_text: the index of the first
\* separator that is "" or occurs in the text; 0 when there is none
pick_separator(seps, text, i) ==
    IF i > Len(seps) THEN 0
    ELSE IF seps[i] = <<>> THEN i
    ELSE IF re_search(seps[i], text) THEN i
    ELSE pick_separator(seps, text, i + 1)

RECURSIVE split_text_rec(_, _, _, _)
RECURSIVE split_loop(_, _, _, _, _, _, _)
\* the for loop over splits of _split_text, from splits[i] on
split_loop(splits, i, final_chunks, good_splits, new_separators, size, overlap) ==
    IF i > Len(splits)
    THEN IF good_splits # <<>>
         THEN final_chunks \o merge_splits(good_splits, <<>>, size, overlap)
         ELSE final_chunks
    ELSE LET s == splits[i]
         IN IF Len(s) < size
            THEN split_loop(splits, i + 1, final_chunks, Append(good_splits, s),
                            new_separators, size, overlap)
            ELSE LET merged == IF good_splits # <<>>
                               THEN final_chunks
                                        \o merge_splits(good_splits, <<>>, size, overlap)
                               ELSE final_chunks
                     other == IF new_separators = <<>>
                              THEN << s >>
                              ELSE split_text_rec(s, new_separators, size, overlap)
                 IN split_loop(splits, i + 1, merged \o other, <<>>,
                               new_separators, size, overlap)

\* RecursiveCharacterTextSplitter._split_text(text, separators), keep_separator=True
split_text_rec(text, seps, size, overlap) ==
    LET k == pick_separator(seps, text, 1)
        separator == IF k = 0 THEN seps[Len(seps)] ELSE seps[k]
        new_separators == IF k = 0 \/ seps[k] = <<>> THEN <<>>
                          ELSE SubSeq(seps, k + 1, Len(seps))
        splits == split_text_with_regex(text, separator)
    IN split_loop(splits, 1, <<>>, <<>>, new_separators, size, overlap)

\* RecursiveCharacterTextSplitter.split_text(text)
split_text(text, size, overlap) == split_text_rec(text, separators, size, overlap)

\* TextSplitter.__init__: the only validation of the chunk policy
\* (ValueError when chunk_overlap > chunk_size)
splitter_config_ok(size, overlap) == ~(overlap > size)

RECURSIVE create_documents(_, _, _, _)
\* TextSplitter.create_documents: one Document per chunk of each text, in
\* order, carrying a copy of the metadata of the document it was cut from
create_documents(docs, i, size, overlap) ==
    IF i > Len(docs) THEN <<>>
    ELSE LET chunks == split_text(docs[i].page_content, size, overlap)
         IN [k \in 1..Len(chunks) |->
                [source |-> docs[i].source, page_content |-> chunks[k]]]
            \o create_documents(docs, i + 1, size, overlap)

RECURSIVE create_documents_keep_empty(_, _, _, _)
create_documents_keep_empty(docs, i, size, overlap) ==
    IF i > Len(docs) THEN <<>>
    ELSE LET split == split_text(docs[i].page_content, size, overlap)
             chunks == IF split = <<>> THEN << docs[i].page_content >> ELSE split
         IN [k \in 1..Len(chunks) |->
                [source |-> docs[i].source, page_content |-> chunks[k]]]
            \o create_documents_keep_empty(docs, i + 1, size, overlap)

\* mutant of split_documents: a text that splits into nothing is kept as one
\* chunk
split_documents_keep_empty(docs, size, overlap) ==
    create_documents_keep_empty(docs, 1, size, overlap)

\* TextSplitter.split_documents(documents)
split_documents(docs, size, overlap) == create_documents(docs, 1, size, overlap)

----------------------------------------------------------------------------
(* The process environment *)

NoException == "None"
\* exit_status while the process is running
Running == <<>>

MissingKeyError == "ValueError: OPENAI_API_KEY environment variable is not set"
PortValueError == "ValueError: int() of CHROMADB_PORT"
InterpreterInitError == "Fatal Python error: PYTHONINTMAXSTRDIGITS: invalid limit"
RootMissingError == "FileNotFoundError: directory not found"
StoreConnectionError == "ConnectionError: connection to the vector store refused"
EmbeddingServiceError == "EmbeddingServiceError"

\* os.getenv(name, default)
getenv(env, name, default) == IF name \in DOMAIN env THEN env[name] ELSE default

\* `not os.getenv('OPENAI_API_KEY')`: unset (None) or empty
key_missing(env) ==
    "OPENAI_API_KEY" \notin DOMAIN env \/ env["OPENAI_API_KEY"] = <<>>

\* the digit zero of every Unicode decimal-digit block (category Nd); the
\* digits 0..9 of a block are consecutive
DecimalZeros ==
    {48, 1632, 1776, 1984, 2406, 2534, 2662, 2790, 2918, 3046, 3174, 3302,
     3430, 3558, 3664, 3792, 3872, 4160, 4240, 6112, 6160, 6470, 6608,
     6784, 6800, 6992, 7088, 7232, 7248, 42528, 43216, 43264, 43472, 43504,
     43600, 44016, 65296, 66720, 68912, 69734, 69872, 69942, 70096, 70384,
     70736, 70864, 71248, 71360, 71472, 71904, 72016, 72784, 73040, 73120,
     92768, 92864, 93008, 120782, 120792, 120802, 120812, 120822, 123200,
     123632, 125264, 130032}

\* str.isdecimal of one character; the only ASCII block is "0".."9"
IsDigit(c) ==
    IF c < 128 THEN 48 <= c /\ c <= 57
    ELSE \E z \in DecimalZeros : z <= c /\ c <= z + 9

DigitValue(c) ==
    IF c < 128 THEN c - 48
    ELSE c - (CHOOSE z \in DecimalZeros : z <= c /\ c <= z + 9)

\* a digit string without its leading zeros
significant(str) ==
    LET nonzero == { i \in 1..Len(str) : DigitValue(str[i]) # 0 }
    IN IF nonzero = {} THEN <<>>
       ELSE SubSeq(str, CHOOSE i \in nonzero : \A j \in nonzero : i <= j, Len(str))

RECURSIVE digits_value_rec(_)
digits_value_rec(str) ==
    IF str = <<>> THEN 0
    ELSE 10 * digits_value_rec(SubSeq(str, 1, Len(str) - 1)) + DigitValue(str[Len(str)])

\* the number a digit string denotes
digits_value(str) == digits_value_rec(significant(str))

\* the blanks C's strtol skips before the number
CSpace == {9, 10, 11, 12, 13, 32}

\* the digits of strtol(str): leading blanks and one optional sign removed
strtol_digits(str) ==
    LET lit == lstrip(str, CSpace)
    IN IF lit # <<>> /\ lit[1] \in {43, 45} THEN Tail(lit) ELSE lit

\* strtol converts the whole of str to a value that fits a C int: ASCII
\* digits only, and a magnitude of at most 2147483647 (2^31 - 1)
strtol_ok(str) ==
    LET body == strtol_digits(str)
        sig == significant(body)
    IN /\ body # <<>>
       /\ \A i \in 1..Len(body) : 48 <= body[i] /\ body[i] <= 57
       /\ \/ Len(sig) <= 9
          \/ /\ Len(sig) = 10
             /\ LET high == digits_value(SubSeq(sig, 1, 9))
                IN \/ high < 214748364
                   \/ high = 214748364 /\ DigitValue(sig[10]) <= 7

\* strtol(str) when strtol_ok(str)
strtol_value(str) ==
    LET lit == lstrip(str, CSpace)
        magnitude == digits_value(strtol_digits(str))
    IN IF lit[1] = 45 THEN 0 - magnitude ELSE magnitude

\* PYTHONINTMAXSTRDIGITS is read by the interpreter that runs the script;
\* an empty value counts as unset
max_str_digits_set(env) ==
    "PYTHONINTMAXSTRDIGITS" \in DOMAIN env /\ env["PYTHONINTMAXSTRDIGITS"] # <<>>

\* the interpreter starts: the limit, when set, is 0 or at least the threshold
interpreter_config_ok(env) ==
    max_str_digits_set(env) =>
        /\ strtol_ok(env["PYTHONINTMAXSTRDIGITS"])
        /\ LET limit == strtol_value(env["PYTHONINTMAXSTRDIGITS"])
           IN limit = 0 \/ limit >= max_str_digits_threshold

\* sys.get_int_max_str_digits() of the started interpreter; 0 is no limit
int_max_str_digits(env) ==
    IF max_str_digits_set(env) /\ interpreter_config_ok(env)
    THEN strtol_value(env["PYTHONINTMAXSTRDIGITS"])
    ELSE default_max_str_digits

\* the blanks int() skips around the literal: the ASCII blanks, and every
\* non-ASCII whitespace character (FS, GS, RS, US are not skipped)
IntWhitespace == {9, 10, 11, 12, 13, 32} \cup { c \in Whitespace : c >= 128 }

\* the literal of int(str) without surrounding blanks
int_literal(str) == rstrip(lstrip(str, IntWhitespace), IntWhitespace)

\* ... and without its sign ("+" or "-")
int_unsigned(str) ==
    LET lit == int_literal(str)
    IN IF lit # <<>> /\ lit[1] \in {43, 45} THEN Tail(lit) ELSE lit

\* int(str) does not raise ValueError under the limit max_digits: after the
\* blanks and one optional sign come decimal digits, with single underscores
\* allowed between digits, and no more than max_digits digits (underscores
\* not counted) unless max_digits is 0
int_ok(str, max_digits) ==
    LET body == int_unsigned(str)
    IN /\ body # <<>>
       /\ max_digits = 0 \/ Len(SelectSeq(body, LAMBDA c : c # 95)) <= max_digits
       /\ body[1] # 95
       /\ body[Len(body)] # 95
       /\ \A i \in 1..Len(body) : body[i] = 95 \/ IsDigit(body[i])
       /\ \A i \in 1..(Len(body) - 1) : ~(body[i] = 95 /\ body[i + 1] = 95)

\* int(str) when int_ok(str)
int_value(str) ==
    LET lit == int_literal(str)
        magnitude == digits_value(SelectSeq(int_unsigned(str), LAMBDA c : c # 95))
    IN IF lit[1] = 45 THEN 0 - magnitude ELSE magnitude

\* int(os.getenv('CHROMADB_PORT', 8000)): the default is already an int, a
\* value of the environment is converted under the limit the same
\* environment gave the interpreter
port_ok(env) ==
    \/ "CHROMADB_PORT" \notin DOMAIN env
    \/ int_ok(env["CHROMADB_PORT"], int_max_str_digits(env))

port_of(env) ==
    IF "CHROMADB_PORT" \in DOMAIN env THEN int_value(env["CHROMADB_PORT"])
    ELSE default_port

\* mutant of exit_code: the exception is swallowed and the process exits 0
exit_code_swallowed(exc) == 0

\* exit status of the interpreter: 1 after an uncaught exception, else 0
exit_code(exc) == IF exc = NoException THEN 0 ELSE 1

\* "", "sk"
ApiKeyValues == { <<>>, <<115, 107>> }
\* "81", "x", and "0...081" of one digit more than int() converts under the
\* smallest limit
PortValues ==
    { <<56, 49>>, <<120>>,
      [i \in 1..(max_str_digits_threshold - 1) |-> 48] \o <<56, 49>> }
\* "5" (below the threshold), "640" (the smallest limit)
MaxStrDigitsValues == { <<53>>, <<54, 52, 48>> }

EnvValues(name) ==
    CASE name = "OPENAI_API_KEY" -> ApiKeyValues
      [] name = "CHROMADB_PORT" -> PortValues
      [] name = "PYTHONINTMAXSTRDIGITS" -> MaxStrDigitsValues

Environments ==
    { e \in UNION { [names -> ApiKeyValues \cup PortValues \cup MaxStrDigitsValues] :
                        names \in SUBSET {"OPENAI_API_KEY", "CHROMADB_PORT",
                                          "PYTHONINTMAXSTRDIGITS"} } :
        \A name \in DOMAIN e : e[name] \in EnvValues(name) }

\* "", "a", "aa", ... and a text of one blank
FileTexts == Str({97}, MaxLen) \cup { <<32>> }

\* "f1", "f2", ...
Paths == [k \in 1..MaxDocs |-> <<102, 48 + k>>]

\* directory trees: the root is missing, or holds up to MaxDocs matching
\* files, each with a distinct path (walk order) and a text content
Trees ==
    { [exists |-> FALSE, files |-> <<>>] }
    \cup { [exists |-> TRUE,
            files |-> [k \in 1..n |-> [source |-> Paths[k], page_content |-> c[k]]]] :
              n \in 0..MaxDocs, c \in [1..MaxDocs -> FileTexts] }

----------------------------------------------------------------------------
(* The vector store *)

\* mutant of new_records: the last chunk is left out
new_records_drop_last(chunks, first_id) ==
    { [id |-> first_id + k, source |-> chunks[k].source, text |-> chunks[k].page_content] :
        k \in 1..(Len(chunks) - 1) }

\* Chroma.add_texts without ids: one new uuid per text, then one
\* collection.upsert call with ids, metadatas and documents
new_records(chunks, first_id) ==
    { [id |-> first_id + k, source |-> chunks[k].source, text |-> chunks[k].page_content] :
        k \in 1..Len(chunks) }

\* mutant of upsert: the collection is replaced by the new records
upsert_replace(coll, records) == records

\* collection.upsert: a record of an id already present is replaced
upsert(coll, records) ==
    { r \in coll : \A n \in records : n.id # r.id } \cup records

----------------------------------------------------------------------------
(* The pipeline: one action per statement of __main__ and index_codebase *)

\* an uncaught exception ends the process
Raise(exc) ==
    /\ exception' = exc
    /\ exit_status' = << exit_code(exc) >>
    /\ pc' = "exited"

\* __main__: a new process (the first, or one started after the previous has
\* exited), started as `python code-agent.py` without interpreter options:
\* the interpreter configures itself from the environment, then the script
\* reads its connection details from the same environment
Main ==
    /\ pc \in {"idle", "exited"}
    /\ runs < MaxRuns
    /\ runs' = runs + 1
    /\ \E env \in Environments :
        /\ environ' = env
        /\ IF ~interpreter_config_ok(env)
           THEN /\ chroma_port' = 0
                /\ Raise(InterpreterInitError)
           ELSE IF port_ok(env)
           THEN /\ chroma_port' = port_of(env)
                /\ pc' = "load"
                /\ exception' = NoException
                /\ exit_status' = Running
           ELSE /\ chroma_port' = 0
                /\ Raise(PortValueError)
    /\ documents' = <<>>
    /\ texts' = <<>>
    /\ embeddings' = FALSE
    /\ vectorstore' = FALSE
    /\ fs_reads' = 0
    /\ network_calls' = 0
    /\ upserts' = <<>>
    /\ run_start' = collection
    /\ UNCHANGED <<fs, collection, next_id, splitVars>>

\* loader = DirectoryLoader(...); documents = loader.load()
Load ==
    /\ pc = "load"
    /\ fs_reads' = fs_reads + 1
    /\ IF fs.exists
       THEN /\ documents' = fs.files
            /\ pc' = "split"
            /\ UNCHANGED <<exception, exit_status>>
       ELSE /\ Raise(RootMissingError)
            /\ UNCHANGED documents
    /\ UNCHANGED <<fs, collection, next_id, runs, environ, chroma_port, texts, embeddings,
                   vectorstore, network_calls, upserts, run_start, splitVars>>

\* text_splitter = RecursiveCharacterTextSplitter(chunk_size=1000, chunk_overlap=100)
\* texts = text_splitter.split_documents(documents)
Split ==
    /\ pc = "split"
    /\ IF splitter_config_ok(chunk_size, chunk_overlap)
       THEN /\ texts' = split_documents(documents, chunk_size, chunk_overlap)
            /\ pc' = "check_key"
            /\ UNCHANGED <<exception, exit_status>>
       ELSE /\ Raise("ValueError: larger chunk overlap than chunk size")
            /\ UNCHANGED texts
    /\ UNCHANGED <<fs, collection, next_id, runs, environ, chroma_port, documents,
                   embeddings, vectorstore, fs_reads, network_calls, upserts, run_start,
                   splitVars>>

\* mutant of CheckKey: the credential is checked only after both clients have
\* been built
CheckKey_after_clients ==
    /\ pc = "check_key"
    /\ IF key_missing(environ)
       THEN /\ Raise(MissingKeyError)
            /\ embeddings' = TRUE
            /\ vectorstore' = TRUE
            /\ network_calls' = network_calls + 1
       ELSE /\ pc' = "embeddings"
            /\ UNCHANGED <<exception, exit_status, embeddings, vectorstore, network_calls>>
    /\ UNCHANGED <<fs, collection, next_id, runs, environ, chroma_port, documents, texts,
                   fs_reads, upserts, run_start, splitVars>>

\* openai_api_key = os.getenv('OPENAI_API_KEY'); if not openai_api_key: raise ValueError
CheckKey ==
    /\ pc = "check_key"
    /\ IF key_missing(environ)
       THEN Raise(MissingKeyError)
       ELSE /\ pc' = "embeddings"
            /\ UNCHANGED <<exception, exit_status>>
    /\ UNCHANGED <<fs, collection, next_id, runs, environ, chroma_port, documents, texts,
                   embeddings, vectorstore, fs_reads, network_calls, upserts, run_start,
                   splitVars>>

\* embeddings = OpenAIEmbeddings(openai_api_key=openai_api_key): no request is sent
NewEmbeddings ==
    /\ pc = "embeddings"
    /\ embeddings' = TRUE
    /\ pc' = "chroma"
    /\ UNCHANGED <<fs, collection, next_id, runs, environ, chroma_port, documents, texts,
                   vectorstore, exception, exit_status, fs_reads, network_calls, upserts,
                   run_start, splitVars>>

\* vectorstore = Chroma(collection_name="codebase", ..., host, port): the
\* client contacts the store, which answers or refuses the connection
NewChroma ==
    /\ pc = "chroma"
    /\ network_calls' = network_calls + 1
    /\ \E refused \in BOOLEAN :
        IF refused
        THEN /\ Raise(StoreConnectionError)
             /\ UNCHANGED vectorstore
        ELSE /\ vectorstore' = TRUE
             /\ pc' = "add_documents"
             /\ UNCHANGED <<exception, exit_status>>
    /\ UNCHANGED <<fs, collection, next_id, runs, environ, chroma_port, documents, texts,
                   embeddings, fs_reads, upserts, run_start, splitVars>>

\* mutant of AddDocuments: records are upserted one request at a time, so a
\* refused connection leaves the first record written
AddDocuments_one_by_one ==
    /\ pc = "add_documents"
    /\ \E outcome \in {"ok", "embedding_failed", "connection_refused"} :
        IF outcome = "ok"
        THEN /\ network_calls' = network_calls + 2
             /\ collection' = upsert(collection, new_records(texts, next_id))
             /\ next_id' = next_id + Len(texts)
             /\ upserts' = texts
             /\ exception' = NoException
             /\ exit_status' = << exit_code(NoException) >>
             /\ pc' = "exited"
        ELSE IF outcome = "embedding_failed"
        THEN /\ network_calls' = network_calls + 1
             /\ Raise(EmbeddingServiceError)
             /\ UNCHANGED <<collection, next_id, upserts>>
        ELSE /\ network_calls' = network_calls + 2
             /\ Raise(StoreConnectionError)
             /\ collection' = upsert(collection,
                                     new_records(SubSeq(texts, 1, Min(1, Len(texts))), next_id))
             /\ next_id' = next_id + Min(1, Len(texts))
             /\ upserts' = SubSeq(texts, 1, Min(1, Len(texts)))
    /\ UNCHANGED <<fs, runs, environ, chroma_port, documents, texts, embeddings,
                   vectorstore, fs_reads, run_start, splitVars>>

\* vectorstore.add_documents(texts): embed all texts, then one upsert of all
\* records; either request can fail, and a failure leaves the store untouched
AddDocuments ==
    /\ pc = "add_documents"
    /\ \E outcome \in {"ok", "embedding_failed", "connection_refused"} :
        IF outcome = "ok"
        THEN /\ network_calls' = network_calls + 2
             /\ collection' = upsert(collection, new_records(texts, next_id))
             /\ next_id' = next_id + Len(texts)
             /\ upserts' = texts
             /\ exception' = NoException
             /\ exit_status' = << exit_code(NoException) >>
             /\ pc' = "exited"
        ELSE IF outcome = "embedding_failed"
        THEN /\ network_calls' = network_calls + 1
             /\ Raise(EmbeddingServiceError)
             /\ UNCHANGED <<collection, next_id, upserts>>
        ELSE /\ network_calls' = network_calls + 2
             /\ Raise(StoreConnectionError)
             /\ UNCHANGED <<collection, next_id, upserts>>
    /\ UNCHANGED <<fs, runs, environ, chroma_port, documents, texts, embeddings,
                   vectorstore, fs_reads, run_start, splitVars>>

SplitIdle ==
    /\ sp_text = <<>>
    /\ sp_size = chunk_size
    /\ sp_overlap = chunk_overlap
    /\ sp_chunks = <<>>
    /\ sp_pc = "idle"

PipeIdle ==
    /\ collection = {}
    /\ next_id = 0
    /\ runs = 0
    /\ environ = << >>
    /\ pc = "idle"
    /\ chroma_port = 0
    /\ documents = <<>>
    /\ texts = <<>>
    /\ embeddings = FALSE
    /\ vectorstore = FALSE
    /\ exception = NoException
    /\ exit_status = Running
    /\ fs_reads = 0
    /\ network_calls = 0
    /\ upserts = <<>>
    /\ run_start = {}

Init ==
    /\ fs \in Trees
    /\ PipeIdle
    /\ SplitIdle

Next ==
    \/ Main
    \/ Load
    \/ Split
    \/ CheckKey
    \/ NewEmbeddings
    \/ NewChroma
    \/ AddDocuments

Spec == Init /\ [][Next]_vars

\* weak fairness of Split, WF_vars(Split), with ENABLED <<Split>>_vars written
\* out as pc = "split" (Split is possible exactly there, and moves pc on)
SplitFair == []<>(pc # "split") \/ []<><<Split>>_vars

\* a started process executes its next statement, and every library call
\* returns or raises; nothing obliges anyone to start another process (Main)
FairSpec ==
    /\ Spec
    /\ WF_vars(Load)
    /\ SplitFair
    /\ WF_vars(CheckKey)
    /\ WF_vars(NewEmbeddings)
    /\ WF_vars(NewChroma)
    /\ WF_vars(AddDocuments)

\* a process has been started and has not exited
Started == pc \notin {"idle", "exited"}

----------------------------------------------------------------------------
(* The splitter on its own: any text, any chunk policy *)

\* "a", "b", space, newline, tab
SplitAlphabet == {97, 98, 32, 10, 9}

\* RecursiveCharacterTextSplitter(chunk_size=size, chunk_overlap=overlap)
NewSplitter ==
    /\ sp_pc = "new"
    /\ sp_pc' = IF splitter_config_ok(sp_size, sp_overlap) THEN "ready" ELSE "rejected"
    /\ UNCHANGED <<sp_text, sp_size, sp_overlap, sp_chunks, pipeVars>>

\* text_splitter.split_text(text)
SplitText ==
    /\ sp_pc = "ready"
    /\ sp_chunks' = split_text(sp_text, sp_size, sp_overlap)
    /\ sp_pc' = "split"
    /\ UNCHANGED <<sp_text, sp_size, sp_overlap, pipeVars>>

SplitInit ==
    /\ fs = [exists |-> FALSE, files |-> <<>>]
    /\ PipeIdle
    /\ sp_text \in Str(SplitAlphabet, MaxTextLen)
    /\ sp_size \in 1..MaxSize
    /\ sp_overlap \in 0..MaxSize
    /\ sp_chunks = <<>>
    /\ sp_pc = "new"

SplitNext == NewSplitter \/ SplitText

SplitSpec == SplitInit /\ [][SplitNext]_vars

----------------------------------------------------------------------------
(* Properties *)

Succeeded == pc = "exited" /\ exit_status = << 0 >>

WrittenThisRun == collection \ run_start

\* C1: when OPENAI_API_KEY is unset or empty, the run aborts before the
\* loader executes: no filesystem read and no chunking has occurred.
C1_AbortBeforeLoad ==
    exception = MissingKeyError =>
        /\ fs_reads = 0
        /\ documents = <<>>
        /\ texts = <<>>

RecordsFor(coll, source, text) == { r \in coll : r.source = source /\ r.text = text }

\* C2: a successful run against a collection that an earlier run of the same
\* unchanged directory has filled leaves, for every chunk, no more records
\* than there were: it overwrites rather than duplicates.
C2_Idempotent ==
    (Succeeded /\ run_start # {}) =>
        \A k \in 1..Len(texts) :
            Cardinality(RecordsFor(collection, texts[k].source, texts[k].page_content))
                <= Cardinality(RecordsFor(run_start, texts[k].source, texts[k].page_content))

\* C3: in a run that does not abort, every chunk the splitter produced has
\* been upserted, each exactly once: the upsert received exactly the chunk
\* list, and the run added exactly one record per chunk.
C3_Completeness ==
    Succeeded =>
        /\ upserts = texts
        /\ Cardinality(WrittenThisRun) = Len(texts)
        /\ \A k \in 1..Len(texts) :
              Cardinality(RecordsFor(WrittenThisRun, texts[k].source,
                                     texts[k].page_content)) = 1

C3_Witness == Succeeded /\ Len(texts) >= 2

\* the part of chunk k that the next chunk does not repeat
ChunkHead(chunks, k, size, overlap) ==
    IF k = Len(chunks) THEN chunks[k]
    ELSE SubSeq(chunks[k], 1, Min(Len(chunks[k]), size - overlap))

Reconstruct(chunks, size, overlap) ==
    Join([k \in 1..Len(chunks) |-> ChunkHead(chunks, k, size, overlap)], <<>>)

\* end offset of the last chunk, chunk k starting (k-1)*(size-overlap) in
LastEndOffset(chunks, size, overlap) ==
    (Len(chunks) - 1) * (size - overlap) + Len(chunks[Len(chunks)])

ChunksCover(text, chunks, size, overlap) ==
    /\ LastEndOffset(chunks, size, overlap) = Len(text)
    /\ Reconstruct(chunks, size, overlap) = text

\* C4 as stated: every document of length L > 0 under (s, o), 0 <= o < s,
\* yields ceil((L-o)/(s-o)) chunks, the last ending at L, and the chunks'
\* non-overlapping heads concatenate to the document.
C4_Original ==
    (sp_pc = "split" /\ Len(sp_text) > 0 /\ sp_overlap < sp_size) =>
        /\ Len(sp_chunks) = Ceil(Len(sp_text) - sp_overlap, sp_size - sp_overlap)
        /\ Len(sp_chunks) > 0
        /\ ChunksCover(sp_text, sp_chunks, sp_size, sp_overlap)

EmptySources == { documents[i].source :
                    i \in { j \in 1..Len(documents) : documents[j].page_content = <<>> } }

\* C5: a zero-byte document yields zero chunks: no chunk of the run is empty,
\* none comes from a zero-byte document, and no record of such a document is
\* handed to the upsert or stored.
C5_ZeroByte ==
    /\ \A k \in 1..Len(texts) :
          texts[k].page_content # <<>> /\ texts[k].source \notin EmptySources
    /\ \A k \in 1..Len(upserts) : upserts[k].source \notin EmptySources
    /\ \A r \in collection : r.source \notin EmptySources

C5_Witness == Succeeded /\ EmptySources # {} /\ upserts # <<>>

\* C7: when the store refuses the connection the run aborts with the store
\* connection error and none of its upserts has succeeded: the collection
\* holds no record written by the run.
C7_NoPartialUpsert ==
    exception = StoreConnectionError =>
        /\ pc = "exited"
        /\ exit_status # << 0 >>
        /\ upserts = <<>>
        /\ collection = run_start

C7_Witness ==
    /\ exception = StoreConnectionError
    /\ vectorstore
    /\ texts # <<>>

\* C8: when OPENAI_API_KEY is absent the error is raised before any network
\* call: neither client has been constructed or contacted.
C8_NoNetworkBeforeKeyError ==
    exception = MissingKeyError =>
        /\ ~embeddings
        /\ ~vectorstore
        /\ network_calls = 0

C8_Witness == exception = MissingKeyError /\ pc = "exited" /\ texts # <<>>

\* a run has no exit status until it exits, and then one that matches its
\* outcome: non-zero exactly when an error was raised (interpreter start-up,
\* port conversion, missing credential, missing root, store failure among
\* them), zero only when every chunk produced has been upserted
ExitMatchesOutcome ==
    /\ pc \notin {"idle", "exited"} => exit_status = Running
    /\ pc = "exited" =>
        /\ exit_status \in { << 0 >>, << 1 >> }
        /\ exit_status = << 0 >> <=> exception = NoException
        /\ (key_missing(environ) \/ ~fs.exists \/ ~interpreter_config_ok(environ)
                \/ ~port_ok(environ)) => exit_status # << 0 >>
        /\ exit_status = << 0 >> =>
              /\ upserts = texts
              /\ \A k \in 1..Len(texts) :
                    RecordsFor(collection, texts[k].source, texts[k].page_content) # {}

C10_WriteOnlyAtAdd ==
    [][ collection' # collection =>
            /\ pc = "add_documents"
            /\ fs_reads > 0
            /\ ~key_missing(environ)
            /\ embeddings
            /\ vectorstore
            /\ collection \subseteq collection' ]_vars

C10_Witness ==
    /\ pc = "exited"
    /\ exception \in {RootMissingError, MissingKeyError, StoreConnectionError}
    /\ ~vectorstore
    /\ collection # {}
    /\ collection = run_start

====
